---- MODULE Spec2Model ----
(***************************************************************************)
(* A model of the DocCrop backend (backend/app.py, backend/scheduler.py):  *)
(* the income/expense ledger over its two storage backends (SQLite table   *)
(* `entries`, MongoDB collection `expenses`), the Mongo-only notes, the    *)
(* pesticide scheduler and the scheme filter.                              *)
(*                                                                         *)
(* Text the code computes on (dates, ids, crop names, state/district       *)
(* names) is a sequence of one-character strings, so that comparison,      *)
(* str.lower, str.strip, int() and ObjectId() are computed, not assumed.   *)
(***************************************************************************)
EXTENDS Integers, Sequences, FiniteSets, TLC

VARIABLES
    USE_MONGO,        \* app.py:28-41, fixed at import time
    entries,          \* rows of table `entries` / documents of mongo_collection, in insertion order
    sqlite_sequence,  \* AUTOINCREMENT's record of the largest rowid ever assigned
    oid_inc,          \* the counter ObjectId generation draws from
    notes,            \* documents of mongo_notes, in insertion order
    schemes_json,     \* backend/schemes.json: absent, or its 'schemes' list
    request,          \* the request being answered
    response,         \* the answer to it
    assigned,         \* history: ids handed out by inserts into entries, in order of creation
    removed           \* history: ids whose row a delete removed

vars == <<USE_MONGO, entries, sqlite_sequence, oid_inc, notes, schemes_json,
          request, response, assigned, removed>>

-----------------------------------------------------------------------------
(* Bounds of the model *)

\* inserts into entries over one behaviour
MaxAdds == 2
\* inserts into notes over one behaviour
MaxNotes == 1

-----------------------------------------------------------------------------
(* Text *)

\* ASCII characters in code-point order
Alphabet ==
    <<" ", "+", "-", "0", "1", "2", "3", "4", "5", "6", "7", "8", "9",
      "A", "B", "C", "D", "E", "F", "G", "M", "O", "R", "W",
      "a", "b", "c", "d", "e", "f", "g", "h", "i", "k", "m", "o", "r", "t", "w", "x", "z">>

\* the place of each character in that order
OrdTable == [c \in {Alphabet[i] : i \in 1..Len(Alphabet)} |->
                CHOOSE i \in 1..Len(Alphabet) : Alphabet[i] = c]

Ord(c) == OrdTable[c]

Digits == <<"0", "1", "2", "3", "4", "5", "6", "7", "8", "9">>

IsDigit(c) == \E i \in 1..10 : Digits[i] = c

DigitVal(c) == (CHOOSE i \in 1..10 : Digits[i] = c) - 1

UpperCase == <<"A", "B", "C", "D", "E", "F", "G", "M", "O", "R", "W">>

LowerCase == <<"a", "b", "c", "d", "e", "f", "g", "m", "o", "r", "w">>

\* str.lower on one character
LowerChar(c) ==
    IF \E i \in 1..Len(UpperCase) : UpperCase[i] = c
    THEN LowerCase[CHOOSE i \in 1..Len(UpperCase) : UpperCase[i] = c]
    ELSE c

\* str.lower
Lower(s) == [i \in 1..Len(s) |-> LowerChar(s[i])]

RECURSIVE LStrip(_)
LStrip(s) == IF s # <<>> /\ Head(s) = " " THEN LStrip(Tail(s)) ELSE s

RECURSIVE RStrip(_)
RStrip(s) ==
    IF s # <<>> /\ s[Len(s)] = " " THEN RStrip(SubSeq(s, 1, Len(s) - 1)) ELSE s

\* str.strip
Strip(s) == RStrip(LStrip(s))

\* s < t as SQLite's BINARY collation and MongoDB's simple collation compare text
RECURSIVE StrLess(_, _)
StrLess(s, t) ==
    IF t = <<>> THEN FALSE
    ELSE IF s = <<>> THEN TRUE
    ELSE IF Head(s) # Head(t) THEN Ord(Head(s)) < Ord(Head(t))
    ELSE StrLess(Tail(s), Tail(t))

RECURSIVE DropZeros(_)
DropZeros(s) == IF s # <<>> /\ Head(s) = "0" THEN DropZeros(Tail(s)) ELSE s

\* the decimal digits of a natural number; zero has none
RECURSIVE NatDigits(_)
NatDigits(n) == IF n = 0 THEN <<>> ELSE Append(NatDigits(n \div 10), Digits[(n % 10) + 1])

-----------------------------------------------------------------------------
(* Values of the Python runtime and of the two stores *)

\* a key the JSON payload does not hold
Absent == "<absent>"

\* JSON null, Python None
None == "<None>"

JNum(n) == [k |-> "num", n |-> n, s |-> <<>>]

JStr(s) == [k |-> "str", n |-> 0, s |-> s]

JNull == [k |-> "null", n |-> 0, s |-> <<>>]

JAbsent == [k |-> "absent", n |-> 0, s |-> <<>>]

RECURSIVE DigitsToNat(_)
DigitsToNat(s) ==
    IF s = <<>> THEN 0 ELSE 10 * DigitsToNat(SubSeq(s, 1, Len(s) - 1)) + DigitVal(s[Len(s)])

\* the sign and the digits of a stripped integer literal, or ok = FALSE
Literal(t) ==
    LET signed == t # <<>> /\ Head(t) \in {"+", "-"}
        body == IF signed THEN Tail(t) ELSE t
    IN  [ok |-> body # <<>> /\ \A i \in 1..Len(body) : IsDigit(body[i]),
         neg |-> signed /\ Head(t) = "-",
         body |-> body]

\* PyInt with a fallback of 0 for text that is no integer
PyIntOrZero(s) ==
    LET lit == Literal(Strip(s))
        mag == IF lit.ok THEN DropZeros(lit.body) ELSE <<>>
    IN  [ok |-> TRUE, neg |-> lit.ok /\ lit.neg /\ mag # <<>>, mag |-> mag]

\* int(entry_id) on text made of spaces, a sign and ASCII digits: surrounding
\* whitespace is dropped, one sign and leading zeros are accepted.  The value
\* is unbounded, so it is kept as its sign and its digits.
PyInt(s) ==
    LET lit == Literal(Strip(s))
        mag == DropZeros(lit.body)
    IN  IF lit.ok
        THEN [ok |-> TRUE, neg |-> lit.neg /\ mag # <<>>, mag |-> mag]
        ELSE [ok |-> FALSE, neg |-> FALSE, mag |-> <<>>]

\* the Python int of a natural number
IntOf(n) == [ok |-> TRUE, neg |-> FALSE, mag |-> NatDigits(n)]

\* 2^63 - 1 and 2^63, the magnitudes an SQLite INTEGER holds
Int64MaxDigits ==
    <<"9", "2", "2", "3", "3", "7", "2", "0", "3", "6", "8", "5", "4", "7", "7", "5", "8", "0", "7">>

Int64MinDigits ==
    <<"9", "2", "2", "3", "3", "7", "2", "0", "3", "6", "8", "5", "4", "7", "7", "5", "8", "0", "8">>

\* whether sqlite3 can bind the Python int as a parameter; it raises
\* OverflowError otherwise
FitsInt64(v) ==
    LET limit == IF v.neg THEN Int64MinDigits ELSE Int64MaxDigits
    IN  \/ Len(v.mag) < Len(limit)
        \/ Len(v.mag) = Len(limit) /\ ~StrLess(limit, v.mag)

\* float(x) for a JSON number, a JSON string holding an integer literal or
\* other text, and null.  A float is modelled by the integer it equals.
PyFloat(x) ==
    IF x.k = "num" THEN [ok |-> TRUE, val |-> x.n, exc |-> ""]
    ELSE IF x.k = "str"
    THEN LET lit == Literal(Strip(x.s))
         IN  IF lit.ok
             THEN [ok |-> TRUE,
                   val |-> IF lit.neg THEN 0 - DigitsToNat(lit.body) ELSE DigitsToNat(lit.body),
                   exc |-> ""]
             ELSE [ok |-> FALSE, val |-> 0, exc |-> "ValueError"]
    ELSE [ok |-> FALSE, val |-> 0, exc |-> "TypeError"]

HexChars == <<"0", "1", "2", "3", "4", "5", "6", "7", "8", "9", "a", "b", "c", "d", "e", "f">>

IsHex(c) == \E i \in 1..16 : HexChars[i] = LowerChar(c)

\* the length of an ObjectId's hexadecimal form
ObjectIdHexLen == 24

\* n in hexadecimal, w characters wide
RECURSIVE HexOf(_, _)
HexOf(n, w) == IF w = 0 THEN <<>> ELSE Append(HexOf(n \div 16, w - 1), HexChars[(n % 16) + 1])

\* str(ObjectId): the 12 bytes in lowercase hexadecimal.  The model's ObjectIds
\* differ in their trailing counter bytes only.
ObjectIdStr(n) == HexOf(n, ObjectIdHexLen)

\* ObjectId(entry_id): a 24-character hexadecimal string, or InvalidId
ObjectId(s) ==
    IF Len(s) = ObjectIdHexLen /\ \A i \in 1..Len(s) : IsHex(s[i])
    THEN [ok |-> TRUE, hex |-> Lower(s)]
    ELSE [ok |-> FALSE, hex |-> <<>>]

\* jsonify(body), status
Json(status, body) == [status |-> status, json |-> TRUE, body |-> body]

\* an exception no handler catches: Flask answers 500 with its HTML error page
Unhandled(exc) == [status |-> 500, json |-> FALSE, body |-> [exception |-> exc]]

Has(body, key) == key \in DOMAIN body

Max(a, b) == IF a >= b THEN a ELSE b

RECURSIVE MaxId(_)
MaxId(rows) == IF rows = <<>> THEN 0 ELSE Max(Head(rows).id, MaxId(Tail(rows)))

Range(s) == {s[i] : i \in 1..Len(s)}

-----------------------------------------------------------------------------
(* Requests of the ledger and of the notes *)

D1 == <<"2", "0", "2", "4", "-", "0", "1", "-", "0", "1">>

D2 == <<"2", "0", "2", "4", "-", "0", "1", "-", "0", "2">>

\* what datetime.utcnow().strftime('%Y-%m-%d') returns
Todays == {D2}

\* JSON bodies of POST /api/expenses; the empty date stands for a missing,
\* null or empty 'date', which the handler treats alike
Payloads ==
    [date : {<<>>, D1},
     type : {Absent, "expense", "income", "bogus"},
     category : {Absent},
     amount : {JAbsent, JNum(5), JStr(<<"x">>), JNull},
     note : {Absent}]

\* the <entry_id> of DELETE /api/expenses/<entry_id>
EntryIds ==
    UNION {{NatDigits(n), ObjectIdStr(n)} : n \in 1..(MaxAdds + 1)}
    \cup {<<" ", "+", "0", "1">>, <<"x">>, Int64MinDigits,
          [i \in 1..ObjectIdHexLen |-> IF i = ObjectIdHexLen THEN "g" ELSE "0"],
          SubSeq(ObjectIdStr(1), 2, ObjectIdHexLen)}

\* JSON bodies of POST /api/notes; the empty text stands for a missing or null key
NotePayloads == [title : {<<>>, <<" ", "t", " ">>}, content : {<<>>}]

\* int(entry_id) and ObjectId(entry_id), computed once for each <entry_id>
numeric_ids == [s \in EntryIds |-> PyInt(s)]

object_ids == [s \in EntryIds |-> ObjectId(s)]

-----------------------------------------------------------------------------
(* The ledger: /api/expenses *)

\* ORDER BY date DESC, id DESC: whether row a comes before row b
RowBefore(a, b) == StrLess(b.date, a.date) \/ (a.date = b.date /\ a.id > b.id)

RECURSIVE InsertRow(_, _)
InsertRow(r, sorted) ==
    IF sorted = <<>> THEN <<r>>
    ELSE IF RowBefore(r, Head(sorted)) THEN <<r>> \o sorted
    ELSE <<Head(sorted)>> \o InsertRow(r, Tail(sorted))

\* SELECT * FROM entries ORDER BY date DESC, id DESC
RECURSIVE SelectOrdered(_)
SelectOrdered(rows) ==
    IF rows = <<>> THEN <<>> ELSE InsertRow(Head(rows), SelectOrdered(Tail(rows)))

\* the orders of the documents in which no date follows a smaller date
DateDescending(docs) ==
    {p \in [1..Len(docs) -> 1..Len(docs)] :
        /\ \A i, j \in 1..Len(docs) : i # j => p[i] # p[j]
        /\ \A i, j \in 1..Len(docs) : i < j => ~StrLess(docs[p[i]].date, docs[p[j]].date)}

\* r['id'] = str(r.get('_id')); r.pop('_id', None)
MongoItem(doc) == [doc EXCEPT !.id = ObjectIdStr(doc.id)]

\* mongo_collection.find({}, sort=[('date', -1)]): MongoDB promises no order
\* among documents of equal date, so every date-descending order is a
\* possible result
MongoFind(docs) ==
    {[i \in 1..Len(docs) |-> MongoItem(docs[p[i]])] : p \in DateDescending(docs)}

\* the listings GET /api/expenses can answer with
Listings(mongo, rows) == IF mongo THEN MongoFind(rows) ELSE {SelectOrdered(rows)}

\* the table's constraints: type TEXT CHECK(type IN ('expense','income')) NOT
\* NULL, category NOT NULL.  date and amount NOT NULL always hold: the handler
\* defaults the date, and float() returns a number or raises.
ConstraintsHold(row) ==
    /\ row.type \in {"expense", "income"}
    /\ row.category # None

\* NextRowid of a table declared without AUTOINCREMENT: one more than the
\* largest rowid now in the table
NextRowidOfTable(rows, seq) == MaxId(rows) + 1

\* INTEGER PRIMARY KEY AUTOINCREMENT: one more than the largest rowid that was
\* ever in the table
NextRowid(rows, seq) == Max(seq, MaxId(rows)) + 1

\* the fields api_add_entry reads from the payload, with their defaults
EntryFields(payload, today) ==
    [date |-> IF payload.date = <<>> THEN today ELSE payload.date,
     type |-> IF payload.type = Absent THEN "expense" ELSE payload.type,
     category |-> IF payload.category = Absent THEN "general" ELSE payload.category,
     amount |-> PyFloat(IF payload.amount.k = "absent" THEN JNum(0) ELSE payload.amount),
     note |-> IF payload.note = Absent THEN "" ELSE payload.note]

\* NewRow with the column default in place of the payload's type
NewRowOfDefaultType(id, f) ==
    [id |-> id, date |-> f.date, type |-> "expense", category |-> f.category,
     amount |-> f.amount.val, note |-> f.note]

NewRow(id, f) ==
    [id |-> id, date |-> f.date, type |-> f.type, category |-> f.category,
     amount |-> f.amount.val, note |-> f.note]

\* POST /api/expenses
api_add_entry(payload, today) ==
    LET f == EntryFields(payload, today)
        oid == oid_inc + 1
        rowid == NextRowid(entries, sqlite_sequence)
    IN  /\ Len(assigned) < MaxAdds
        /\ request' = [op |-> "api_add_entry", payload |-> payload]
        /\ IF ~f.amount.ok
           THEN /\ response' = Unhandled(f.amount.exc)
                /\ UNCHANGED <<entries, sqlite_sequence, oid_inc, assigned>>
           ELSE IF USE_MONGO
           THEN /\ entries' = Append(entries, NewRow(oid, f))
                /\ oid_inc' = oid
                /\ assigned' = Append(assigned, oid)
                /\ response' = Json(200, [status |-> "ok", id |-> ObjectIdStr(oid)])
                /\ UNCHANGED sqlite_sequence
           ELSE IF ~ConstraintsHold(NewRow(rowid, f))
           THEN /\ response' = Unhandled("IntegrityError")
                /\ UNCHANGED <<entries, sqlite_sequence, oid_inc, assigned>>
           ELSE /\ entries' = Append(entries, NewRow(rowid, f))
                /\ sqlite_sequence' = rowid
                /\ assigned' = Append(assigned, rowid)
                /\ response' = Json(200, [status |-> "ok"])
                /\ UNCHANGED oid_inc
        /\ UNCHANGED <<USE_MONGO, notes, schemes_json, removed>>

\* GET /api/expenses
api_list_entries ==
    /\ request' = [op |-> "api_list_entries"]
    /\ \E items \in Listings(USE_MONGO, entries) :
          response' = Json(200, [entries |-> items])
    /\ UNCHANGED <<USE_MONGO, entries, sqlite_sequence, oid_inc, notes, schemes_json,
                   assigned, removed>>

\* DELETE FROM entries WHERE id = ?
SqliteDelete(rows, numeric_id) ==
    SelectSeq(rows, LAMBDA r : IntOf(r.id) # numeric_id)

\* mongo_collection.delete_one({"_id": ObjectId(entry_id)})
MongoDeleteOne(docs, oid) ==
    SelectSeq(docs, LAMBDA d : ObjectIdStr(d.id) # oid.hex)

\* DELETE /api/expenses/<entry_id>
api_delete_entry(entry_id) ==
    LET oid == object_ids[entry_id]
        numeric_id == numeric_ids[entry_id]
        left == IF USE_MONGO THEN MongoDeleteOne(entries, oid)
                ELSE SqliteDelete(entries, numeric_id)
    IN  /\ request' = [op |-> "api_delete_entry", entry_id |-> entry_id]
        /\ IF USE_MONGO
           THEN IF oid.ok
                THEN /\ entries' = left
                     /\ response' = Json(200, [deleted |-> entry_id])
                ELSE /\ response' = Json(400, [error |-> "InvalidId"])
                     /\ UNCHANGED entries
           ELSE IF ~numeric_id.ok
           THEN /\ response' = Json(400, [error |-> "invalid id"])
                /\ UNCHANGED entries
           ELSE IF ~FitsInt64(numeric_id)
           THEN /\ response' = Unhandled("OverflowError")
                /\ UNCHANGED entries
           ELSE /\ entries' = left
                /\ response' = Json(200, [deleted |-> numeric_id])
        /\ removed' = removed \cup {r.id : r \in Range(entries) \ Range(entries')}
        /\ UNCHANGED <<USE_MONGO, sqlite_sequence, oid_inc, notes, schemes_json, assigned>>

-----------------------------------------------------------------------------
(* The notes: /api/notes *)

Untitled == <<"U", "n", "t", "i", "t", "l", "e", "d">>

\* NotConfigured without its status code
NotConfiguredNoStatus == Json(200, [error |-> "MongoDB not configured"])

NotConfigured == Json(400, [error |-> "MongoDB not configured"])

\* the orders of the documents in which no created_at follows a smaller one
CreatedDescending(docs) ==
    {p \in [1..Len(docs) -> 1..Len(docs)] :
        /\ \A i, j \in 1..Len(docs) : i # j => p[i] # p[j]
        /\ \A i, j \in 1..Len(docs) : i < j => docs[p[i]].created_at >= docs[p[j]].created_at}

\* POST /api/notes; utcnow is an instant later than that of every stored note
api_add_note(payload) ==
    LET title == IF Strip(payload.title) = <<>> THEN Untitled ELSE Strip(payload.title)
        content == Strip(payload.content)
        now == Len(notes) + 1
        oid == oid_inc + 1
    IN  /\ request' = [op |-> "api_add_note", payload |-> payload]
        /\ IF ~USE_MONGO
           THEN /\ response' = NotConfigured
                /\ UNCHANGED <<notes, oid_inc>>
           ELSE /\ Len(notes) < MaxNotes
                /\ notes' = Append(notes, [id |-> oid, title |-> title, content |-> content,
                                           created_at |-> now])
                /\ oid_inc' = oid
                /\ response' = Json(200, [status |-> "ok", id |-> ObjectIdStr(oid)])
        /\ UNCHANGED <<USE_MONGO, entries, sqlite_sequence, schemes_json, assigned, removed>>

\* GET /api/notes
api_list_notes ==
    /\ request' = [op |-> "api_list_notes"]
    /\ IF ~USE_MONGO
       THEN response' = NotConfigured
       ELSE \E p \in CreatedDescending(notes) :
               response' = Json(200, [notes |-> [i \in 1..Len(notes) |-> MongoItem(notes[p[i]])]])
    /\ UNCHANGED <<USE_MONGO, entries, sqlite_sequence, oid_inc, notes, schemes_json,
                   assigned, removed>>

-----------------------------------------------------------------------------
(* The scheduler: backend/scheduler.py and /api/schedule *)

Wheat == <<"W", "h", "e", "a", "t">>

Rice == <<"R", "i", "c", "e">>

SCHEDULES ==
    [c \in {Wheat, Rice} |->
        IF c = Wheat
        THEN <<[days_after_sowing |-> 10, pesticide |-> "Herbicide A", note |-> "Weed control"],
               [days_after_sowing |-> 25, pesticide |-> "Fungicide B", note |-> "Rust prevention"],
               [days_after_sowing |-> 40, pesticide |-> "Insecticide C", note |-> "Aphid control"]>>
        ELSE <<[days_after_sowing |-> 15, pesticide |-> "Herbicide R1", note |-> "Weed control"],
               [days_after_sowing |-> 30, pesticide |-> "Fungicide R2", note |-> "Blast prevention"]>>]

\* crop or 'Wheat', stripped; None and '' are both the empty text here
CropKey(crop) == Strip(IF crop = <<>> THEN Wheat ELSE crop)

get_pesticide_schedule(crop) ==
    IF CropKey(crop) \in DOMAIN SCHEDULES THEN SCHEDULES[CropKey(crop)] ELSE SCHEDULES[Wheat]

\* datetime.date: the proleptic Gregorian calendar
IsLeap(y) == y % 4 = 0 /\ (y % 100 # 0 \/ y % 400 = 0)

DaysInMonth(y, m) ==
    IF m = 2 THEN (IF IsLeap(y) THEN 29 ELSE 28)
    ELSE IF m \in {4, 6, 9, 11} THEN 30 ELSE 31

NextDay(d) ==
    IF d.day < DaysInMonth(d.year, d.month) THEN [d EXCEPT !.day = d.day + 1]
    ELSE IF d.month < 12 THEN [year |-> d.year, month |-> d.month + 1, day |-> 1]
    ELSE [year |-> d.year + 1, month |-> 1, day |-> 1]

PrevDay(d) ==
    IF d.day > 1 THEN [d EXCEPT !.day = d.day - 1]
    ELSE IF d.month > 1
    THEN [year |-> d.year, month |-> d.month - 1, day |-> DaysInMonth(d.year, d.month - 1)]
    ELSE [year |-> d.year - 1, month |-> 12, day |-> 31]

\* date + timedelta(days=n)
RECURSIVE PlusDays(_, _)
PlusDays(d, n) == IF n = 0 THEN d ELSE PlusDays(NextDay(d), n - 1)

\* date - timedelta(days=n)
RECURSIVE MinusDays(_, _)
MinusDays(d, n) == IF n = 0 THEN d ELSE MinusDays(PrevDay(d), n - 1)

\* a >= b on dates
DateGeq(a, b) ==
    \/ a.year > b.year
    \/ a.year = b.year /\ a.month > b.month
    \/ a.year = b.year /\ a.month = b.month /\ a.day >= b.day

\* n in decimal, w characters wide
RECURSIVE Padded(_, _)
Padded(n, w) == IF w = 0 THEN <<>> ELSE Append(Padded(n \div 10, w - 1), Digits[(n % 10) + 1])

\* date.isoformat(): YYYY-MM-DD
IsoFormat(d) == Padded(d.year, 4) \o <<"-">> \o Padded(d.month, 2) \o <<"-">> \o Padded(d.day, 2)

\* SowingDate without the seven days
SowingDateIsFromDate(from_date) == from_date

\* the sowing date next_pesticide_recommendation assumes
SowingDate(from_date) == MinusDays(from_date, 7)

NoUpcoming == [message |-> "No upcoming tasks in schedule"]

\* the loop of next_pesticide_recommendation over the items left
RECURSIVE FirstDue(_, _, _)
FirstDue(schedule, sowing_date, from_date) ==
    IF schedule = <<>> THEN NoUpcoming
    ELSE LET item == Head(schedule)
             due_date == PlusDays(sowing_date, item.days_after_sowing)
         IN  IF DateGeq(due_date, from_date)
             THEN [due_date |-> IsoFormat(due_date),
                   days_after_sowing |-> item.days_after_sowing,
                   pesticide |-> item.pesticide, note |-> item.note]
             ELSE FirstDue(Tail(schedule), sowing_date, from_date)

next_pesticide_recommendation(crop, from_date) ==
    FirstDue(get_pesticide_schedule(crop), SowingDate(from_date), from_date)

\* GET /api/schedule; today is datetime.utcnow().date()
api_schedule(crop, today) ==
    /\ request' = [op |-> "api_schedule", crop |-> crop, from_date |-> today]
    /\ response' = Json(200, [crop |-> crop,
                              schedule |-> get_pesticide_schedule(crop),
                              next_due |-> next_pesticide_recommendation(crop, today)])
    /\ UNCHANGED <<USE_MONGO, entries, sqlite_sequence, oid_inc, notes, schemes_json,
                   assigned, removed>>

-----------------------------------------------------------------------------
(* The scheme filter: /api/schemes *)

\* SchemeMatches without lowercasing the item
SchemeMatchesCaseSensitive(item, state, district) ==
    LET s_ok == state = <<>> \/ item.state = state
        d_ok == district = <<>> \/ item.district = district
    IN  s_ok /\ d_ok

\* whether one item of schemes.json passes the two filters
SchemeMatches(item, state, district) ==
    LET s_ok == state = <<>> \/ Lower(item.state) = state
        d_ok == district = <<>> \/ Lower(item.district) = district
    IN  s_ok /\ d_ok

\* GET /api/schemes?state=&district=
api_schemes(state_arg, district_arg) ==
    LET state == Strip(Lower(state_arg))
        district == Strip(Lower(district_arg))
        results == IF schemes_json.exists
                   THEN SelectSeq(schemes_json.schemes,
                                  LAMBDA item : SchemeMatches(item, state, district))
                   ELSE <<>>
    IN  /\ request' = [op |-> "api_schemes", state |-> state_arg, district |-> district_arg]
        /\ response' = Json(200, [schemes |-> results])
        /\ UNCHANGED <<USE_MONGO, entries, sqlite_sequence, oid_inc, notes, schemes_json,
                       assigned, removed>>

-----------------------------------------------------------------------------
(* Requests of the scheduler and of the scheme filter *)

\* arguments of GET /api/schedule; the empty crop cannot come from the route,
\* whose default is Wheat, but the function accepts it
Crops ==
    {<<>>, Wheat, Rice, <<" ">> \o Rice \o <<" ">>, <<"r", "i", "c", "e">>,
     <<"M", "a", "i", "z", "e">>}

\* dates utcnow().date() may return: a leap February and a December, so that
\* due dates cross the ends of months and of a year
FromDates ==
    {[year |-> 2024, month |-> m, day |-> d] : m \in {2, 12}, d \in 1..31}
    \ {[year |-> 2024, month |-> 2, day |-> d] : d \in 30..31}

\* the most items a schemes.json of the model holds
MaxSchemes == 2

SchemeItems ==
    {[name |-> "PM-KISAN", state |-> <<"G", "o", "a">>, district |-> <<"A">>],
     [name |-> "PMFBY", state |-> <<"g", "o", "a", " ">>, district |-> <<"a">>],
     [name |-> "KCC", state |-> <<"M", "G">>, district |-> <<>>],
     [name |-> "SHC", state |-> <<>>, district |-> <<" ", "a">>]}

RECURSIVE SeqsUpTo(_, _)
SeqsUpTo(S, n) ==
    IF n = 0 THEN {<<>>}
    ELSE LET shorter == SeqsUpTo(S, n - 1)
         IN  shorter \cup {Append(q, x) : q \in shorter, x \in S}

\* schemes.json: absent, or a document with a 'schemes' list
SchemeFiles ==
    {[exists |-> FALSE, schemes |-> <<>>]}
    \cup {[exists |-> TRUE, schemes |-> q] : q \in SeqsUpTo(SchemeItems, MaxSchemes)}

StateArgs == {<<>>, <<" ">>, <<"g", "o", "a">>, <<" ", "G", "O", "A", " ">>, <<"m", "g">>}

DistrictArgs == {<<>>, <<"a">>, <<" ", "A">>, <<"b">>}

-----------------------------------------------------------------------------
(* Specifications *)

NoRequest == [op |-> "none"]

NoResponse == [status |-> 0, json |-> FALSE, body |-> [none |-> TRUE]]

\* the process after create_app() on an empty store, under either backend
Init ==
    /\ USE_MONGO \in BOOLEAN
    /\ entries = <<>>
    /\ sqlite_sequence = 0
    /\ oid_inc = 0
    /\ notes = <<>>
    /\ schemes_json = [exists |-> FALSE, schemes |-> <<>>]
    /\ request = NoRequest
    /\ response = NoResponse
    /\ assigned = <<>>
    /\ removed = {}

Next ==
    \/ \E payload \in Payloads, today \in Todays : api_add_entry(payload, today)
    \/ api_list_entries
    \/ \E entry_id \in EntryIds : api_delete_entry(entry_id)

\* the ledger, under either backend
Spec == Init /\ [][Next]_vars

InitRelational == Init /\ ~USE_MONGO

NextRelational ==
    \/ \E payload \in Payloads, today \in Todays : api_add_entry(payload, today)
    \/ api_list_entries
    \/ \E entry_id \in EntryIds : api_delete_entry(entry_id)
    \/ \E payload \in NotePayloads : api_add_note(payload)
    \/ api_list_notes

\* the ledger and the notes, with MONGODB_URI unset
SpecRelational == InitRelational /\ [][NextRelational]_vars

InitSchedule == Init

NextSchedule == \E crop \in Crops, today \in FromDates : api_schedule(crop, today)

\* the scheduler called on every crop and date
SpecSchedule == InitSchedule /\ [][NextSchedule]_vars

InitSchemes ==
    /\ USE_MONGO \in BOOLEAN
    /\ entries = <<>>
    /\ sqlite_sequence = 0
    /\ oid_inc = 0
    /\ notes = <<>>
    /\ schemes_json \in SchemeFiles
    /\ request = NoRequest
    /\ response = NoResponse
    /\ assigned = <<>>
    /\ removed = {}

NextSchemes ==
    \E state \in StateArgs, district \in DistrictArgs : api_schemes(state, district)

\* the scheme filter called on every file and query
SpecSchemes == InitSchemes /\ [][NextSchemes]_vars

-----------------------------------------------------------------------------
(* Properties *)

IsLetter(c) == ~IsDigit(c) /\ c \notin {" ", "+", "-"}

HasLetter(s) == \E i \in 1..Len(s) : IsLetter(s[i])

\* the stored rows as a listing shows them
Listed(mongo, rows) == {IF mongo THEN MongoItem(r) ELSE r : r \in Range(rows)}

\* a listing's id a comes after id b in ascending order
IdGreater(mongo, a, b) == IF mongo THEN StrLess(b, a) ELSE a > b

\* C1: whatever was added and deleted before, and in whatever order, the
\* listing GET /api/expenses answers with holds the stored entries, each once,
\* by date descending and, among entries of one date, by id descending, under
\* the relational and under the document backend.
C1_ListingOrdered ==
    request.op = "api_list_entries" =>
        LET items == response.body.entries
        IN  /\ Len(items) = Len(entries)
            /\ Range(items) = Listed(USE_MONGO, entries)
            /\ \A i \in 1..(Len(items) - 1) :
                  \/ StrLess(items[i + 1].date, items[i].date)
                  \/ /\ items[i + 1].date = items[i].date
                     /\ IdGreater(USE_MONGO, items[i].id, items[i + 1].id)

\* a payload whose type is expense or income and whose amount is a JSON number
ValidPair(payload) == payload.type \in {"expense", "income"} /\ payload.amount.k = "num"

\* an id of the backend's declared shape: an integer, or 24 hexadecimal characters
IdShape(mongo, id) ==
    IF mongo THEN Len(id) = 24 /\ \A i \in 1..Len(id) : IsHex(id[i])
    ELSE id \in Nat \ {0}

\* C2: an add with a valid (type, amount) pair puts into every listing that can
\* follow it an entry with that type and amount and a new id of the backend's
\* shape, and every entry that was listed before the add is still listed
\* unchanged.
C2_AddedIsListed ==
    [][(request'.op = "api_add_entry" /\ ValidPair(request'.payload)) =>
          \A after \in Listings(USE_MONGO', entries') :
              /\ \E i \in 1..Len(after) :
                    /\ after[i].type = request'.payload.type
                    /\ after[i].amount = request'.payload.amount.n
                    /\ IdShape(USE_MONGO, after[i].id)
                    /\ \A old \in Listed(USE_MONGO, entries) : old.id # after[i].id
              /\ Listed(USE_MONGO, entries) \subseteq Range(after)]_vars

\* a valid add has been answered with an entry stored before it
C2_Witness ==
    /\ request.op = "api_add_entry"
    /\ ValidPair(request.payload)
    /\ response.status = 200
    /\ Len(entries) = 2
    /\ entries[2].type = "income"
    /\ entries[2].amount = 5

\* an id the backend accepts: an integer literal (spaces around it, one sign,
\* digits), or 24 hexadecimal characters
WellFormedId(mongo, s) ==
    IF mongo THEN Len(s) = 24 /\ \A i \in 1..Len(s) : IsHex(s[i])
    ELSE LET t == Strip(s)
             digits == IF t # <<>> /\ t[1] \in {"+", "-"} THEN Tail(t) ELSE t
         IN  digits # <<>> /\ \A i \in 1..Len(digits) : IsDigit(digits[i])

\* the stored rows a well-formed id names
Named(mongo, rows, s) ==
    {r \in Range(rows) :
        IF mongo THEN ObjectIdStr(r.id) = Lower(s)
        ELSE DropZeros(SelectSeq(s, IsDigit)) = NatDigits(r.id) /\ "-" \notin Range(s)}

\* C3: a delete with a well-formed id is answered with {deleted: id} and no
\* error, under both backends; it removes the entry the id names, if there is
\* one, and leaves every other entry as it was.
C3_DeleteSucceeds ==
    [][(request'.op = "api_delete_entry" /\ WellFormedId(USE_MONGO, request'.entry_id)) =>
          /\ response'.json
          /\ response'.status = 200
          /\ Has(response'.body, "deleted")
          /\ entries' = SelectSeq(entries,
                 LAMBDA r : r \notin Named(USE_MONGO, entries, request'.entry_id))]_vars

\* C3, for ids SQLite can hold: the same, with the well-formed ids whose value
\* lies outside the 64-bit integers left out.
C3_DeleteSucceedsInRange ==
    [][(/\ request'.op = "api_delete_entry"
        /\ WellFormedId(USE_MONGO, request'.entry_id)
        /\ (USE_MONGO \/ Len(DropZeros(SelectSeq(request'.entry_id, IsDigit))) < 19)) =>
          /\ response'.json
          /\ response'.status = 200
          /\ Has(response'.body, "deleted")
          /\ entries' = SelectSeq(entries,
                 LAMBDA r : r \notin Named(USE_MONGO, entries, request'.entry_id))]_vars

\* C4: a delete with a malformed id (text that is no integer under the
\* relational backend, text that is not 24 hexadecimal characters under the
\* document backend) is answered with an error payload and status 400, and no
\* stored entry is removed.
C4_MalformedIdRejected ==
    [][(request'.op = "api_delete_entry" /\ ~WellFormedId(USE_MONGO, request'.entry_id)) =>
          /\ response'.json
          /\ response'.status = 400
          /\ Has(response'.body, "error")
          /\ entries' = entries]_vars

\* a malformed id has been rejected while entries were stored
C4_Witness ==
    /\ request.op = "api_delete_entry"
    /\ ~WellFormedId(USE_MONGO, request.entry_id)
    /\ response.status = 400
    /\ Len(entries) = 2

\* an amount float() does not accept: null, or text that is no number
Uncoercible(amount) == amount.k = "null" \/ (amount.k = "str" /\ HasLetter(amount.s))

\* C5: an add whose amount cannot be coerced to a float is answered with a
\* structured JSON error payload and a client- or server-error status, not
\* with an unhandled fault, and stores no entry.
C5_BadAmountReported ==
    [][(request'.op = "api_add_entry" /\ Uncoercible(request'.payload.amount)) =>
          /\ response'.json
          /\ response'.status >= 400
          /\ Has(response'.body, "error")
          /\ entries' = entries]_vars

\* C6: every stored entry has type expense or income, under both backends.
C6_TypeIsExpenseOrIncome == \A r \in Range(entries) : r.type \in {"expense", "income"}

\* C7: under the relational backend addNote and listNotes are each answered
\* with an {error} payload and status 400, and change no stored note or entry.
C7_NotesUnsupported ==
    [][(~USE_MONGO /\ request'.op \in {"api_add_note", "api_list_notes"}) =>
          /\ response'.json
          /\ response'.status = 400
          /\ Has(response'.body, "error")
          /\ notes' = notes
          /\ entries' = entries]_vars

\* a note was refused under the relational backend while an entry was stored
C7_Witness ==
    /\ ~USE_MONGO
    /\ request.op = "api_add_note"
    /\ response.status = 400
    /\ entries # <<>>

\* the due date of an item: from_date - 7 days + days_after_sowing, counted
\* from from_date itself
DueOf(from_date, item) ==
    IF item.days_after_sowing >= 7 THEN PlusDays(from_date, item.days_after_sowing - 7)
    ELSE MinusDays(from_date, 7 - item.days_after_sowing)

\* C8: for every crop and every from_date D the recommendation is the first
\* item of the crop's schedule whose due date, D - 7 days + days_after_sowing,
\* is on or after D, together with that due date; it is the "no upcoming
\* tasks" sentinel when the schedule has no such item.
C8_FirstDueItem ==
    request.op = "api_schedule" =>
        LET D == request.from_date
            schedule == response.body.schedule
            next_due == response.body.next_due
            upcoming == {i \in 1..Len(schedule) : DateGeq(DueOf(D, schedule[i]), D)}
        IN  IF upcoming = {}
            THEN DOMAIN next_due = {"message"}
            ELSE LET first == CHOOSE i \in upcoming : \A j \in upcoming : i <= j
                 IN  /\ next_due.due_date = IsoFormat(DueOf(D, schedule[first]))
                     /\ next_due.pesticide = schedule[first].pesticide
                     /\ next_due.note = schedule[first].note
                     /\ next_due.days_after_sowing = schedule[first].days_after_sowing

\* Rice on 2024-12-31: the first item, 15 days after sowing, is due 2025-01-08
C8_Witness ==
    /\ request.op = "api_schedule"
    /\ request.crop = <<" ">> \o Rice \o <<" ">>
    /\ request.from_date = [year |-> 2024, month |-> 12, day |-> 31]
    /\ response.body.next_due.pesticide = "Herbicide R1"
    /\ response.body.next_due.due_date = <<"2", "0", "2", "5", "-", "0", "1", "-", "0", "8">>

\* the records schemes.json supplies
Loaded == IF schemes_json.exists THEN schemes_json.schemes ELSE <<>>

\* C9 as stated: the filter returns, in the order of the file, exactly the
\* records whose state equals the state query and whose district equals the
\* district query, both sides of each comparison lowercased and trimmed, a
\* blank query passing every record; nothing, and no error, without the file.
C9_TrimmedBothSides ==
    request.op = "api_schemes" =>
        /\ response.status = 200
        /\ response.body.schemes =
              SelectSeq(Loaded, LAMBDA item :
                  /\ \/ Strip(request.state) = <<>>
                     \/ Strip(Lower(item.state)) = Strip(Lower(request.state))
                  /\ \/ Strip(request.district) = <<>>
                     \/ Strip(Lower(item.district)) = Strip(Lower(request.district)))

\* C9 as amended: the query is lowercased and trimmed, the record's field is
\* lowercased and not trimmed.
C9_TrimmedQueryOnly ==
    request.op = "api_schemes" =>
        /\ response.status = 200
        /\ response.body.schemes =
              SelectSeq(Loaded, LAMBDA item :
                  /\ \/ Strip(request.state) = <<>>
                     \/ Lower(item.state) = Strip(Lower(request.state))
                  /\ \/ Strip(request.district) = <<>>
                     \/ Lower(item.district) = Strip(Lower(request.district)))

\* a query in capitals and spaces selected one of two records
C9_Witness ==
    /\ request.op = "api_schemes"
    /\ request.state = <<" ", "G", "O", "A", " ">>
    /\ request.district = <<" ", "A">>
    /\ Len(schemes_json.schemes) = 2
    /\ Len(response.body.schemes) = 1
    /\ response.body.schemes[1] = schemes_json.schemes[2]

\* C10: under the relational backend the ids inserts assign are pairwise
\* distinct and increase in order of creation, no stored entry carries the id
\* of a deleted one, and an id that stays stored keeps its date, type,
\* category, amount and note.
C10_IdsNeverReused ==
    [][~USE_MONGO =>
          /\ \A i, j \in 1..Len(assigned') : i < j => assigned'[i] < assigned'[j]
          /\ \A r \in Range(entries') : r.id \notin removed'
          /\ \A r \in Range(entries), q \in Range(entries') : r.id = q.id => r = q]_vars

\* an entry was added after the first one was deleted
C10_Witness ==
    /\ ~USE_MONGO
    /\ removed = {1}
    /\ Len(assigned) = 2
    /\ Len(entries) = 1
    /\ entries[1].id = 2

====
